---- MODULE Spec2Model ----
(***************************************************************************)
(* The global signal bus of src/qt_enhance/signal_manager.py               *)
(* (class SignalManager) as a state machine: one action per public method. *)
(*                                                                         *)
(* What the objects the bus hands out can do is decided by PySide6:        *)
(*  - Signal(...) evaluated at run time (the predefined attributes of      *)
(*    lines 24-45 and the custom signals of line 61) is an unbound signal  *)
(*    declaration.  Only a declaration made in a class body is bound, on   *)
(*    attribute access, to a SignalInstance, and only a SignalInstance     *)
(*    carries connect / disconnect / emit.  On an unbound Signal these     *)
(*    attribute accesses raise AttributeError, which the bus catches.      *)
(*  - The bus is a QObject (line 5), so it inherits QObject's own bound    *)
(*    signals (objectNameChanged(str), destroyed); hasattr/getattr and     *)
(*    dir() find them like any other attribute.                            *)
(* The logger is the collaborator of spec section 6: it accepts a message  *)
(* and never raises; it holds no state the bus reads.                      *)
(*                                                                         *)
(* Beside the bus: SingletonMeta (src/utils/singleton.py), ConfigManager's *)
(* get and set (src/utils/config_manager.py), and the window with its      *)
(* view, controller and service (src/main.py, src/modules/main_page,       *)
(* src/core/services).  The signals of the view and of the controller are  *)
(* declared in the class body, so they are bound and deliver to the slots  *)
(* connected to them.  Each part has a specification of its own; the       *)
(* variables of the other parts stay as Init leaves them.                  *)
(***************************************************************************)
EXTENDS Integers, Sequences, FiniteSets, TLC

\* ---------------------------------------------------------------- bounds
\* connections one bound signal may hold at a time
MaxSlots == 2

\* ---------------------------------------------------------------- universe
\* a name used only for custom signals
CustomNames == {"ping"}
\* representative of the fourteen attributes assigned in __init__, as a name
\* the bus is called with from outside
PredefinedNames == {"app_shutdown"}
\* representative of the bound signals the bus inherits from QObject
InheritedSignals == {"objectNameChanged"}
\* the bound signals of QObject: the one above and destroyed(QObject* = nullptr)
BoundSignals == InheritedSignals \cup {"destroyed"}
\* representative of the instance attributes that are no signal
OtherAttributes == {"logger"}
Names == CustomNames \cup PredefinedNames \cup InheritedSignals \cup OtherAttributes
\* the names register_signal is called with
RegisterNames == CustomNames \cup PredefinedNames \cup InheritedSignals

\* a signal_name that is no str: a list, which cannot be hashed
NonStringNames == {"['ping']"}

\* the classes built on SingletonBase that the application constructs
SingletonClasses == {"SignalManager", "ConfigManager"}

\* slots handed to connect_signal: plain functions taking one argument
Observers == {"O1", "O2"}
\* a callable that has no __name__: a functools.partial object
NamelessObservers == {"partial"}
\* emit_signal's data argument: the default None, or a str
NoData == "None"
Payloads == {NoData, "str"}
\* the observers that raise when called, per emission: none, or O1
RaisingSets == {{}, {"O1"}}
\* disconnect_signal's slot argument: the default None, or an observer
NoSlot == "None"

\* the Python value None, as an object reference
None == 0

\* ---------------------------------------------------------------- state
VARIABLES
    custom,     \* self._custom_signals: name -> object id
    slots,      \* connections of each inherited bound signal, in connection order
    last,       \* the last call of a public method: arguments, result, slot calls made
    requested,  \* history: the slots connect_signal was called with for the custom
                \* signal "ping" since it was registered or its slots were last dropped
    rereg,      \* history: register_signal("ping") was called again while registered,
                \* with no connect_signal or disconnect_signal call on it since
    cleared,    \* history: the name disconnect_signal(name) was last called on and
                \* whether that removed a connection; NoFocus once a slot is connected
                \* to the name or the name is unregistered
    called,     \* history: the slots connect_signal was called with for the custom
                \* signal "ping" since it was registered
    orphans,    \* history: the slots connect_signal had been called with for "ping" when
                \* it was removed from the custom registry, and not since
    unreg,      \* history: "ping" has been removed from the custom registry
    inert,      \* history: shutdown() has run and neither register_signal nor
                \* connect_signal was called since
    instances,  \* SingletonMeta._instances: class -> instance id
    config_data,    \* ConfigManager.config_data: the nested mapping
    cfg,            \* the last calls of ConfigManager.set and ConfigManager.get
    phase,          \* the application window: "new", "running" or "closed"
    links,          \* connections of the view's and the controller's signals
    data_cache,     \* the data_cache of the controller's ExampleService
    app_service,    \* App.example_service: "None", "live" or "shutdown"
    status_label,   \* the text of the view's status label, in pieces
    data_display,   \* what the view's data display shows
    act,            \* the last call into the application: arguments, calls made
    ctl_shut,       \* history: MainController.shutdown() has been called
    button,         \* an EnhancedButton: its fields, Qt's enabled flag and text,
                    \* and the single-shot timers that have not fired yet
    tips            \* the message tips: QMessageTip._index, RECORDER, each tip
                    \* made so far, and the last call of close()

\* the bus and its history
busVars == <<custom, slots, last, requested, rereg, cleared, called, orphans, unreg, inert>>

\* the configuration manager
cfgVars == <<config_data, cfg>>

\* the window, the view, the controller and its service
appVars == <<phase, links, data_cache, app_service, status_label, data_display, act,
             ctl_shut>>

\* the widgets
widgetVars == <<button, tips>>

vars == <<busVars, instances, cfgVars, appVars, widgetVars>>

\* instance attributes of the bus after construction: name -> object id
attrs ==
    ("app_shutdown" :> 1) @@ ("objectNameChanged" :> 2) @@ ("logger" :> 3)
        @@ ("app_initialized" :> 4) @@ ("destroyed" :> 5)

hasattr(name) == name \in DOMAIN attrs

\* the Python type of an object the bus can hold
TypeOf(obj) ==
    IF obj = None THEN "NoneType"
    ELSE IF \E n \in BoundSignals : attrs[n] = obj THEN "SignalInstance"
    ELSE IF \E n \in OtherAttributes : attrs[n] = obj THEN "LogManager"
    ELSE "Signal"

\* isinstance(obj, Signal): true of declarations and of bound instances
isinstance_Signal(obj) == TypeOf(obj) \in {"Signal", "SignalInstance"}

\* only a bound SignalInstance has connect / disconnect / emit
HasSlotApi(obj) == TypeOf(obj) = "SignalInstance"

\* the inherited signal an object is bound to
BoundName(obj) == CHOOSE n \in BoundSignals : attrs[n] = obj

Range(s) == {s[i] : i \in 1..Len(s)}

Without(f, n) == [m \in DOMAIN f \ {n} |-> f[m]]

\* Signal(object), line 61: an object distinct from every object alive
NewSignal(reg) ==
    LET used == {attrs[n] : n \in DOMAIN attrs} \cup {reg[n] : n \in DOMAIN reg}
    IN  CHOOSE i \in 1..(Cardinality(used) + 1) :
            i \notin used /\ \A j \in 1..(i - 1) : j \in used

NoFocus == [name |-> "None", had |-> FALSE]

NoCall ==
    [op |-> "init", name |-> "None", arg |-> "None", ok |-> FALSE, obj |-> None,
     invoked |-> <<>>, raised |-> FALSE, again |-> FALSE, escaped |-> FALSE]

\* the record of a call: ok is the boolean returned (TRUE for a method that
\* returns an object or nothing), obj the object returned, invoked the slot
\* calls made, raised whether a slot raised, again whether this is a
\* shutdown() directly after a shutdown(), escaped whether the call ended in
\* an exception that reached the caller
Call(op, name, arg, ok, obj, invoked, raised) ==
    [op |-> op, name |-> name, arg |-> arg, ok |-> ok, obj |-> obj,
     invoked |-> invoked, raised |-> raised,
     again |-> (op = "shutdown" /\ last.op = "shutdown"), escaped |-> FALSE]

\* `signal_name in self._custom_signals` hashes the name: a name that cannot
\* be hashed is a TypeError, raised outside every try block (lines 56, 75,
\* 185, 203)
LookupRaises(signal_name) == signal_name \in NonStringNames

\* the record of a call that ended in an exception no handler caught
Raise(op, name, arg) ==
    [Call(op, name, arg, FALSE, None, <<>>, FALSE) EXCEPT !.escaped = TRUE]

\* ---------------------------------------------------------------- queries
\* lines 75-83 on a given custom registry
lookup_signal(reg, signal_name) ==
    IF signal_name \in DOMAIN reg THEN reg[signal_name]
    ELSE IF hasattr(signal_name) THEN attrs[signal_name]
    ELSE None

get_signal(signal_name) == lookup_signal(custom, signal_name)

is_signal_registered(signal_name) ==
    \/ signal_name \in DOMAIN custom
    \/ hasattr(signal_name) /\ isinstance_Signal(attrs[signal_name])

list_signals ==
    [predefined_signals |-> {n \in DOMAIN attrs : isinstance_Signal(attrs[n])},
     custom_signals |-> DOMAIN custom]

\* ---------------------------------------------------------------- PySide6
\* signal.connect(slot) on a bound signal: a further connection, also of a
\* slot that is connected already
SignalInstance_connect(conns, slot) == Append(conns, slot)

\* signal.disconnect(slot) on a bound signal holding slot: Qt removes the
\* connections that match; the binding may remove every match or the oldest one
SignalInstance_disconnect_slot(conns, slot) ==
    LET first == CHOOSE i \in 1..Len(conns) :
                     conns[i] = slot /\ \A j \in 1..(i - 1) : conns[j] # slot
    IN  { SelectSeq(conns, LAMBDA c : c # slot),
          SubSeq(conns, 1, first - 1) \o SubSeq(conns, first + 1, Len(conns)) }

\* signal.disconnect() on a bound signal: every connection goes
SignalInstance_disconnect_all(conns) == <<>>

\* how a failed disconnect (nothing to disconnect) is reported: older
\* bindings raise RuntimeError, newer ones warn and return False
DisconnectFailures == {"raise", "warn"}

\* how an exception raised inside a slot is reported: printed and dropped, or
\* kept and raised again from emit once every slot has been called
SlotErrors == {"print", "reraise"}

\* signal.emit(...) on a bound signal: one call per connection, in
\* connection order, each with the payload
SignalInstance_emit(conns, data) == [i \in 1..Len(conns) |-> <<conns[i], data>>]

\* objectNameChanged carries exactly one str: emit() without one is a
\* TypeError; destroyed carries a QObject that defaults to nullptr: emit() is
\* accepted and emit(str) is a TypeError
EmitArgsAccepted(obj, data) ==
    IF BoundName(obj) = "destroyed" THEN data = NoData ELSE data # NoData

\* slot.__name__, read for the debug message of lines 123 and 145
HasName(slot) == slot \notin NamelessObservers

\* ---------------------------------------------------------------- register_signal
\* line 62: the registry with a new entry
store_custom(reg, signal_name, signal) == (signal_name :> signal) @@ reg

register_signal(signal_name) ==
    /\ IF LookupRaises(signal_name)
       THEN /\ last' = Raise("register", signal_name, "None")
            /\ UNCHANGED custom
       ELSE IF signal_name \in DOMAIN custom
       THEN /\ last' = Call("register", signal_name, "None", TRUE,
                            custom[signal_name], <<>>, FALSE)
            /\ UNCHANGED custom
       ELSE /\ custom' = store_custom(custom, signal_name, NewSignal(custom))
            /\ last' = Call("register", signal_name, "None", TRUE,
                            NewSignal(custom), <<>>, FALSE)
    /\ UNCHANGED slots

\* ---------------------------------------------------------------- emit_signal
\* lines 95-107 on a given registry and given connections: the boolean
\* returned, the slot calls made and whether a slot raised
emit_outcome(reg, conns, signal_name, data, bad, slotError) ==
    LET signal == lookup_signal(reg, signal_name)
        calls  == IF signal # None /\ HasSlotApi(signal) /\ EmitArgsAccepted(signal, data)
                  THEN SignalInstance_emit(conns[BoundName(signal)], data)
                  ELSE <<>>
        failed == \E i \in 1..Len(calls) : calls[i][1] \in bad
        caught == \/ signal # None /\ ~HasSlotApi(signal)
                  \/ signal # None /\ HasSlotApi(signal) /\ ~EmitArgsAccepted(signal, data)
                  \/ failed /\ slotError = "reraise"
    IN  [ok |-> signal # None /\ ~caught, calls |-> calls, failed |-> failed]

emit_signal(signal_name, data, bad, slotError) ==
    LET out == emit_outcome(custom, slots, signal_name, data, bad, slotError)
    IN  /\ last' = IF LookupRaises(signal_name)
                    THEN Raise("emit", signal_name, data)
                    ELSE Call("emit", signal_name, data, out.ok, None, out.calls,
                              out.failed)
        /\ UNCHANGED <<custom, slots>>

\* ---------------------------------------------------------------- connect_signal
connect_signal(signal_name, slot) ==
    LET signal == get_signal(signal_name)
        bound  == signal # None /\ HasSlotApi(signal)
    IN  /\ bound => Len(slots[BoundName(signal)]) < MaxSlots
        /\ slots' = IF bound
                    THEN [slots EXCEPT ![BoundName(signal)] = SignalInstance_connect(@, slot)]
                    ELSE slots
        /\ last' = IF LookupRaises(signal_name)
                    THEN Raise("connect", signal_name, slot)
                    ELSE Call("connect", signal_name, slot, bound /\ HasName(slot), None,
                              <<>>, FALSE)
        /\ UNCHANGED custom

\* ---------------------------------------------------------------- disconnect_signal
\* as after_disconnect, but without a slot only the oldest connection goes
after_disconnect_oldest(conns, slot) ==
    IF slot = NoSlot THEN {Tail(conns)}
    ELSE SignalInstance_disconnect_slot(conns, slot)

\* as after_disconnect, but a disconnect with a slot takes every connection
after_disconnect_everything(conns, slot) == {<<>>}

\* lines 143-148: the connections a successful disconnect leaves, with the
\* slot given or without
after_disconnect(conns, slot) ==
    IF slot = NoSlot THEN {SignalInstance_disconnect_all(conns)}
    ELSE SignalInstance_disconnect_slot(conns, slot)

disconnect_signal(signal_name, slot, failure) ==
    LET signal == get_signal(signal_name)
        bound  == signal # None /\ HasSlotApi(signal)
        conns  == IF bound THEN slots[BoundName(signal)] ELSE <<>>
        found  == IF slot = NoSlot THEN conns # <<>> ELSE slot \in Range(conns)
    IN  /\ \E after \in (IF ~found THEN {conns} ELSE after_disconnect(conns, slot)) :
               slots' = IF bound THEN [slots EXCEPT ![BoundName(signal)] = after]
                        ELSE slots
        /\ last' = IF LookupRaises(signal_name)
                    THEN Raise("disconnect", signal_name, slot)
                    ELSE Call("disconnect", signal_name, slot,
                              bound /\ (found \/ failure = "warn")
                                    /\ (slot = NoSlot \/ HasName(slot)),
                              None, <<>>, FALSE)
        /\ UNCHANGED custom

\* ---------------------------------------------------------------- unregister_signal
\* as del_custom, but the entry stays
del_custom_skipped(reg, signal_name) == reg

\* line 213: the registry without the entry
del_custom(reg, signal_name) == Without(reg, signal_name)

\* lines 206-210: signal.disconnect() on the custom signal, any error swallowed
drop_connections(conns, signal) ==
    IF HasSlotApi(signal)
    THEN [conns EXCEPT ![BoundName(signal)] = SignalInstance_disconnect_all(@)]
    ELSE conns

\* as unregister_signal, but a name that is not registered is reported as removed
unregister_signal_reporting_true(signal_name) ==
    IF signal_name \in DOMAIN custom
    THEN /\ slots' = drop_connections(slots, custom[signal_name])
         /\ custom' = del_custom(custom, signal_name)
         /\ last' = Call("unregister", signal_name, "None", TRUE, None, <<>>, FALSE)
    ELSE /\ last' = Call("unregister", signal_name, "None", TRUE, None, <<>>, FALSE)
         /\ UNCHANGED <<custom, slots>>

unregister_signal(signal_name) ==
    IF LookupRaises(signal_name)
    THEN /\ last' = Raise("unregister", signal_name, "None")
         /\ UNCHANGED <<custom, slots>>
    ELSE IF signal_name \in DOMAIN custom
    THEN /\ slots' = drop_connections(slots, custom[signal_name])
         /\ custom' = del_custom(custom, signal_name)
         /\ last' = Call("unregister", signal_name, "None", TRUE, None, <<>>, FALSE)
    ELSE /\ last' = Call("unregister", signal_name, "None", FALSE, None, <<>>, FALSE)
         /\ UNCHANGED <<custom, slots>>

\* ---------------------------------------------------------------- shutdown
\* as unregister_all, but the loop stops after the first entry (the registry
\* changing size under the iteration)
unregister_first(reg) ==
    IF reg = <<>> THEN reg ELSE Without(reg, CHOOSE n \in DOMAIN reg : TRUE)

\* lines 233-234: every custom signal goes through unregister_signal
unregister_all(reg) == <<>>

\* as disconnect_attributes, but the connections stay
disconnect_attributes_skipped(conns) == conns

\* lines 237-243: disconnect() on every public attribute that is a signal
disconnect_attributes(conns) ==
    [n \in DOMAIN conns |->
        IF isinstance_Signal(attrs[n]) /\ HasSlotApi(attrs[n])
        THEN SignalInstance_disconnect_all(conns[n]) ELSE conns[n]]

shutdown ==
    /\ custom' = unregister_all(custom)
    /\ slots' = disconnect_attributes(slots)
    /\ last' = Call("shutdown", "None", "None", TRUE, None, <<>>, FALSE)

\* ---------------------------------------------------------------- slots that call the bus
\* what a slot may do with the bus while signal.emit (line 102) is calling it:
\* disconnect_signal on the signal being emitted, with a slot or without,
\* unregister_signal on it, or emit_signal on another signal
Reentries == {"disconnect", "unregister", "emit"}

\* QMetaObject::activate after the first slot has returned: the connections
\* behind the first that are still connected; one disconnected meanwhile is
\* skipped
still_connected(conns, after, slot) ==
    IF slot # NoSlot /\ conns[1] # slot THEN Tail(after) ELSE after

\* lines 95-104 when the signal is bound, takes the payload and has a
\* connection, and the slot called first calls the bus: entry is what it
\* calls, with other the signal it emits or slot the slot it disconnects
emit_signal_reentrant(signal_name, data, entry, other, slot) ==
    LET signal == get_signal(signal_name)
        name   == BoundName(signal)
        conns  == slots[name]
        first  == SignalInstance_emit(SubSeq(conns, 1, 1), data)
        found  == IF slot = NoSlot THEN TRUE ELSE slot \in Range(conns)
        nested == emit_outcome(custom, slots, other, data, {}, "print").calls
    IN  /\ ~LookupRaises(signal_name)
        /\ signal # None /\ HasSlotApi(signal) /\ EmitArgsAccepted(signal, data)
        /\ conns # <<>>
        /\ other # signal_name
        /\ \E after \in (IF entry = "disconnect" /\ found
                          THEN after_disconnect(conns, slot) ELSE {conns}) :
               /\ slots' = [slots EXCEPT ![name] = after]
               /\ last' = Call("emit", signal_name, data, TRUE, None,
                               first
                               \o (IF entry = "emit" THEN nested ELSE <<>>)
                               \o SignalInstance_emit(
                                      IF entry = "disconnect"
                                      THEN still_connected(conns, after, slot)
                                      ELSE Tail(conns), data),
                               FALSE)
        /\ custom' = IF entry = "unregister" /\ signal_name \in DOMAIN custom
                     THEN del_custom(custom, signal_name) ELSE custom

\* ---------------------------------------------------------------- SingletonMeta
\* an instance id no instance carries yet
NewInstance(inst) == Cardinality(DOMAIN inst) + 1

\* as SingletonMeta_call, but every construction makes a new instance
SingletonMeta_call_always_new(inst, cls) ==
    [instances |-> (cls :> NewInstance(inst)) @@ inst, created |-> TRUE]

\* singleton.py lines 21-23: an instance is made, and __init__ run, only for a
\* class that has none; created tells whether that happened
SingletonMeta_call(inst, cls) ==
    IF cls \notin DOMAIN inst
    THEN [instances |-> (cls :> NewInstance(inst)) @@ inst, created |-> TRUE]
    ELSE [instances |-> inst, created |-> FALSE]

\* ---------------------------------------------------------------- ConfigManager
\* a value of the configuration: a mapping from keys to values, or anything
\* else (a str, a number, a list)
Dict(items) == [kind |-> "dict", items |-> items, v |-> ""]
Leaf(v) == [kind |-> "leaf", items |-> <<>>, v |-> v]

\* a key path is a str, modelled as its sequence of characters; "app" stands
\* for a character that is no dot
PathChars == {"app", "."}
MaxPathLen == 5
KeyPaths == UNION {[1..n -> PathChars] : n \in 0..MaxPathLen}

\* the value set is called with, and the default get is called with
ConfigValues == {Leaf("value")}
DefaultValue == Leaf("default")

\* representative of the configuration _create_default_config builds
DefaultConfig == Dict((<<"app">> :> Dict(<<"name">> :> Leaf("PySide6 Framework"))))

\* documents load_config may find in the configuration file: an empty one,
\* one with a text under "app", one with a mapping under "app"
InitialConfigs ==
    { Dict(<<>>),
      Dict(<<"app">> :> Leaf("text")),
      Dict(<<"app">> :> Dict(<<"app">> :> Leaf("text"))) }

\* calls of ConfigManager.set made from outside the window
MaxSets == 1

\* key_path.split('.'): the pieces between the dots, empty ones included
RECURSIVE split(_)
split(key_path) ==
    IF \A i \in 1..Len(key_path) : key_path[i] # "." THEN <<key_path>>
    ELSE LET dot == CHOOSE i \in 1..Len(key_path) :
                        key_path[i] = "." /\ \A j \in 1..(i - 1) : key_path[j] # "."
         IN  <<SubSeq(key_path, 1, dot - 1)>>
                 \o split(SubSeq(key_path, dot + 1, Len(key_path)))

\* lines 97-98: value = value[key] for each key; found is FALSE where that
\* raises KeyError (no such key) or TypeError (value is no mapping)
RECURSIVE descend(_, _)
descend(value, keys) ==
    IF keys = <<>> THEN [found |-> TRUE, value |-> value]
    ELSE IF value.kind = "dict" /\ Head(keys) \in DOMAIN value.items
    THEN descend(value.items[Head(keys)], Tail(keys))
    ELSE [found |-> FALSE, value |-> value]

\* ConfigManager.get, lines 93-102
config_get(config, key_path, default) ==
    LET r == descend(config, split(key_path))
    IN  IF r.found THEN r.value ELSE default

\* as store, but a level that is missing is not created: the call fails
RECURSIVE store_existing(_, _, _)
store_existing(config, keys, value) ==
    IF config.kind # "dict" THEN [ok |-> FALSE, config |-> config]
    ELSE IF Len(keys) = 1
    THEN [ok |-> TRUE, config |-> Dict((keys[1] :> value) @@ config.items)]
    ELSE IF Head(keys) \notin DOMAIN config.items THEN [ok |-> FALSE, config |-> config]
    ELSE LET r == store_existing(config.items[Head(keys)], Tail(keys), value)
         IN  [ok |-> r.ok, config |-> Dict((Head(keys) :> r.config) @@ config.items)]

\* lines 119-125 from one level down: a missing level is created as {}, the
\* last key is assigned; `key not in config` or the assignment raises on a
\* value that is no mapping, and nothing was changed by then
RECURSIVE store(_, _, _)
store(config, keys, value) ==
    IF config.kind # "dict" THEN [ok |-> FALSE, config |-> config]
    ELSE IF Len(keys) = 1
    THEN [ok |-> TRUE, config |-> Dict((keys[1] :> value) @@ config.items)]
    ELSE LET key   == Head(keys)
             child == IF key \in DOMAIN config.items THEN config.items[key]
                      ELSE Dict(<<>>)
             r     == store(child, Tail(keys), value)
         IN  [ok |-> r.ok, config |-> Dict((key :> r.config) @@ config.items)]

\* ConfigManager.set, lines 114-130: the boolean returned and the
\* configuration left
config_set(config, key_path, value) == store(config, split(key_path), value)

\* whether every level of config that keys passes through before its last
\* key, as far as the levels exist, is a mapping
RECURSIVE prefix_mappings(_, _)
prefix_mappings(config, keys) ==
    /\ config.kind = "dict"
    /\ Len(keys) > 1 /\ Head(keys) \in DOMAIN config.items =>
           prefix_mappings(config.items[Head(keys)], Tail(keys))

\* the record of the calls on the configuration: path and value the
\* arguments of the last set, ok what it returned, pre whether the levels the
\* path passes through were mappings when it came, grew whether one of them
\* was missing, sets the number of set calls, got what the last get returned
\* and same whether that get had the path of the last set
NoCfg ==
    [op |-> "init", path |-> <<>>, value |-> DefaultValue, ok |-> FALSE, pre |-> FALSE,
     grew |-> FALSE, sets |-> 0, same |-> FALSE, got |-> DefaultValue]

\* ---------------------------------------------------------------- view, controller, service
\* The texts the controller and the view show are Chinese in the source and
\* are written here in English, piece by piece.
\* Python objects that travel through Signal(str, object)
PyNone == [type |-> "NoneType", items |-> <<>>, s |-> ""]
PyStr(x) == [type |-> "str", items |-> <<>>, s |-> x]
PyDict(m) == [type |-> "dict", items |-> m, s |-> ""]

\* keys and values of the data the user saves
DataKeys == {"a"}
DataValues == {"1", "2"}
\* the keys data is requested with: the sentinel, a key, a key never saved
RequestKeys == {"all", "a", "b"}
\* the action kinds: the three the controller knows, and one it does not
KnownActions == {"initialize", "save_data", "clear_data"}
ActionKinds == KnownActions \cup {"export_data"}
\* the payloads of an action: None, {}, a dict without 'value', a full dict
ActionData ==
    {PyNone, PyDict(<<>>)}
        \cup {PyDict([f \in {"key"} |-> k]) : k \in DataKeys}
        \cup {PyDict([key |-> k, value |-> v]) : k \in DataKeys, v \in DataValues}

\* the data _initialize_page stores, lines 98-100
InitialData ==
    ("app_name" :> "PySide6 Framework") @@ ("version" :> "1.0.0")
        @@ ("author" :> "Developer")

\* the four class-level signals no slot is connected to
NoLinks ==
    [sig \in {"action_triggered", "data_requested", "data_updated", "status_changed"}
        |-> <<>>]

\* what the data display shows: a text, and the 'key: value' lines after it
Display(text, lines) == [text |-> text, lines |-> lines]

\* a call of a slot of the view
ViewCall(slot, text, key, data) == [slot |-> slot, text |-> text, key |-> key, data |-> data]

\* the view, the controller's service and the slot calls made on the view
\* during one call into the application
World ==
    [links |-> links, cache |-> data_cache, status |-> status_label,
     display |-> data_display, calls |-> <<>>]

\* MainView.update_status, main_view.py lines 151-158
update_status(w, status) ==
    [w EXCEPT !.status = <<"status: ">> \o status,
              !.calls = Append(@, ViewCall("update_status", status, "", PyNone))]

\* MainView.update_data, main_view.py lines 128-148
update_data(w, data_key, data) ==
    [w EXCEPT !.display =
                  IF data_key = "all" /\ data.type = "dict"
                  THEN Display("current cache data:",
                               {<<k, data.items[k]>> : k \in DOMAIN data.items})
                  ELSE IF data.type # "NoneType"
                  THEN Display("", {<<data_key, data.s>>})
                  ELSE Display("no data", {}),
              !.calls = Append(@, ViewCall("update_data", <<>>, data_key, data))]

\* status_changed.emit(status): the slot connected in line 32 is called
status_changed_emit(w, status) ==
    IF w.links["status_changed"] = <<>> THEN w ELSE update_status(w, status)

\* data_updated.emit(key, data): the slot connected in line 31 is called
data_updated_emit(w, data_key, data) ==
    IF w.links["data_updated"] = <<>> THEN w ELSE update_data(w, data_key, data)

\* ExampleService.get_data, example_service.py lines 29-30
get_data(cache, key) == IF key \in DOMAIN cache THEN PyStr(cache[key]) ELSE PyNone

\* as set_data, but the cache is left as it is
set_data_dropped(w, key, value) == w

\* ExampleService.set_data, example_service.py lines 39-41
set_data(w, key, value) == [w EXCEPT !.cache = (key :> value) @@ @]

\* ExampleService.clear_cache, example_service.py lines 45-47
clear_cache(w) == [w EXCEPT !.cache = <<>>]

\* MainController.handle_data_request, main_controller.py lines 73-92
handle_data_request(w, data_key) ==
    IF data_key = "all"
    THEN data_updated_emit(w, "all", PyDict(w.cache))
    ELSE data_updated_emit(w, data_key, get_data(w.cache, data_key))

\* MainController._initialize_page, main_controller.py lines 94-104
initialize_page(w) ==
    LET stored == set_data(set_data(set_data(w, "app_name", InitialData["app_name"]),
                                    "version", InitialData["version"]),
                           "author", InitialData["author"])
    IN  handle_data_request(status_changed_emit(stored, <<"page initialized">>), "all")

\* line 54: data and isinstance(data, dict) and 'key' in data and 'value' in data
save_payload(data) ==
    /\ data.type = "dict"
    /\ {"key", "value"} \subseteq DOMAIN data.items

\* as handle_action, but an unknown kind is dropped without a word
handle_action_silent(w, action_type, data) ==
    IF action_type = "initialize" THEN initialize_page(w)
    ELSE IF action_type = "save_data"
    THEN IF save_payload(data)
         THEN status_changed_emit(set_data(w, data.items["key"], data.items["value"]),
                                  <<"data saved: ", data.items["key"]>>)
         ELSE w
    ELSE IF action_type = "clear_data"
    THEN data_updated_emit(status_changed_emit(clear_cache(w), <<"data cache cleared">>),
                           "all", PyNone)
    ELSE w

\* MainController.handle_action, main_controller.py lines 39-70
handle_action(w, action_type, data) ==
    IF action_type = "initialize" THEN initialize_page(w)
    ELSE IF action_type = "save_data"
    THEN IF save_payload(data)
         THEN status_changed_emit(set_data(w, data.items["key"], data.items["value"]),
                                  <<"data saved: ", data.items["key"]>>)
         ELSE w
    ELSE IF action_type = "clear_data"
    THEN data_updated_emit(status_changed_emit(clear_cache(w), <<"data cache cleared">>),
                           "all", PyNone)
    ELSE status_changed_emit(w, <<"unknown action: ", action_type>>)

\* action_triggered.emit(kind, data): the slot connected in line 27 is called
action_triggered_emit(w, action_type, data) ==
    IF w.links["action_triggered"] = <<>> THEN w ELSE handle_action(w, action_type, data)

\* data_requested.emit(key): the slot connected in line 28 is called
data_requested_emit(w, data_key) ==
    IF w.links["data_requested"] = <<>> THEN w ELSE handle_data_request(w, data_key)

\* MainView.__init__ with init_ui, main_view.py lines 17-94: the widgets are
\* built and 'initialize' is emitted to the slots connected by then
MainView_init(w) ==
    action_triggered_emit([w EXCEPT !.status = <<"ready">>, !.display = Display("", {})],
                          "initialize", PyNone)

\* MainController.__init__, main_controller.py lines 15-36: a service of its
\* own, the four connections, the service initialized
MainController_init(w) ==
    [w EXCEPT !.cache = <<>>,
              !.links = [sig \in DOMAIN @ |->
                            Append(@[sig],
                                   CASE sig = "action_triggered" -> "handle_action"
                                     [] sig = "data_requested" -> "handle_data_request"
                                     [] sig = "data_updated" -> "update_data"
                                     [] sig = "status_changed" -> "update_status")]]

\* App._init_ui, main.py lines 89-110: the view first, then its controller
App_init_ui(w) == MainController_init(MainView_init(w))

\* MainController.shutdown with ExampleService.shutdown, main_controller.py
\* lines 106-109 and example_service.py lines 49-53
MainController_shutdown(w) == clear_cache(w)

NoAct ==
    [op |-> "init", kind |-> "", data |-> PyNone, calls |-> <<>>, made |-> <<>>,
     before |-> <<>>]

\* the record of a call into the application: kind and data its arguments,
\* calls the slot calls made on the view, made the calls made on the
\* collaborators, before the service's cache when the call came
Act(op, kind, data, w, made) ==
    [op |-> op, kind |-> kind, data |-> data, calls |-> w.calls, made |-> made,
     before |-> data_cache]

\* ---------------------------------------------------------------- EnhancedButton
\* how many single-shot timers of the button may be waiting at once
MaxTimers == 2

\* the caption the button is made with, and the caption set_loading shows
ButtonText == "button"
LoadingText == "loading..."

\* what set_user_data is called with
UserData == {"None", "data"}

\* EnhancedButton(text, auto_disable=...), enhanced_widgets.py lines 16-57: a
\* QPushButton is enabled when made
EnhancedButton_init(auto_disable) ==
    [enabled |-> TRUE, text |-> ButtonText, auto_disable |-> auto_disable,
     user_data |-> "None", original_text |-> ButtonText, is_loading |-> FALSE,
     timers |-> 0, emitted |-> <<>>]

\* the lambda handed to QTimer.singleShot in line 94, when the timer fires
timer_fired(b) == [b EXCEPT !.enabled = TRUE, !.timers = @ - 1]

\* lines 89-94
disable_temporarily(b) == [b EXCEPT !.enabled = FALSE, !.timers = @ + 1]

\* lines 59-70: clicked_with_data is emitted with the user data, and the
\* button disabled for a while where auto_disable is set; the click effect
\* is a style sheet
on_clicked(b) ==
    LET e == [b EXCEPT !.emitted = <<b.user_data>>]
    IN  IF b.auto_disable THEN disable_temporarily(e) ELSE e

\* lines 95-101
set_user_data(b, data) == [b EXCEPT !.user_data = data]

\* lines 112-126
set_loading(b, is_loading) ==
    IF is_loading
    THEN [b EXCEPT !.is_loading = TRUE, !.original_text = b.text,
                   !.text = LoadingText, !.enabled = FALSE]
    ELSE [b EXCEPT !.is_loading = FALSE, !.text = b.original_text, !.enabled = TRUE]

\* lines 128-134
is_loading(b) == b.is_loading

\* ---------------------------------------------------------------- QMessageTip
\* how many message tips are made
MaxTips == 3

\* no tip made yet: RECORDER = {} and QMessageTip._index = 0; made holds for
\* each tip made, in the order of making, whether it has a _timer and
\* whether the widget is open
NoTips ==
    [index |-> 0, recorder |-> <<>>, made |-> <<>>,
     last |-> [op |-> "init", tip |-> 0, raised |-> "", removed |-> 0]]

\* QMessageTip(), message_tip_widget.py lines 23-32: the class counter goes
\* up and the tip is entered under it; the tip keeps no index of its own
QMessageTip_init(t) ==
    [t EXCEPT !.index = t.index + 1,
              !.recorder = ((t.index + 1) :> (Len(t.made) + 1)) @@ t.recorder,
              !.made = Append(t.made, [timer |-> FALSE, open |-> TRUE]),
              !.last = [op |-> "init", tip |-> Len(t.made) + 1, raised |-> "",
                        removed |-> 0]]

\* close_after_timer(interval), lines 50-54: the tip gets its _timer
close_after_timer(t, tip) ==
    [t EXCEPT !.made[tip].timer = TRUE,
              !.last = [op |-> "close_after_timer", tip |-> tip, raised |-> "",
                        removed |-> 0]]

\* the static information / warning / success / error, lines 81-139: a tip
\* is made, shown, and given its timer
QMessageTip_show(t) == close_after_timer(QMessageTip_init(t), Len(t.made) + 1)

\* self._index in line 79: the tip has no _index of its own, so the
\* attribute read is the class's counter
self_index(t, tip) == t.index

\* close(), lines 72-79, called by the timer or by hand: self._timer.stop()
\* is an AttributeError on a tip that was given no timer; then the widget is
\* closed and the entry under self._index deleted, a KeyError when there is
\* none
QMessageTip_close(t, tip) ==
    LET k == self_index(t, tip)
    IN  IF ~t.made[tip].timer
        THEN [t EXCEPT !.last = [op |-> "close", tip |-> tip,
                                 raised |-> "AttributeError", removed |-> 0]]
        ELSE IF k \notin DOMAIN t.recorder
        THEN [t EXCEPT !.made[tip].open = FALSE,
                       !.last = [op |-> "close", tip |-> tip, raised |-> "KeyError",
                                 removed |-> 0]]
        ELSE [t EXCEPT !.made[tip].open = FALSE,
                       !.recorder = Without(t.recorder, k),
                       !.last = [op |-> "close", tip |-> tip, raised |-> "",
                                 removed |-> k]]

\* ---------------------------------------------------------------- history
\* What each history variable records of a call op(name, arg); a
\* specification keeps the variables of one group and leaves the others at
\* their initial value.
Focus == CHOOSE n \in CustomNames : TRUE

TrackRequested(op, name, arg) ==
    /\ requested' =
          IF name # Focus /\ op # "shutdown" THEN requested
          ELSE IF op = "connect" /\ name \in DOMAIN custom THEN Append(requested, arg)
          ELSE IF op = "disconnect" /\ arg # NoSlot
               THEN SelectSeq(requested, LAMBDA c : c # arg)
          ELSE IF op \in {"disconnect", "unregister", "shutdown"} THEN <<>>
          ELSE IF op = "register" /\ name \notin DOMAIN custom THEN <<>>
          ELSE requested
    /\ rereg' =
          IF name # Focus /\ op # "shutdown" THEN rereg
          ELSE IF op = "register" THEN name \in DOMAIN custom
          ELSE IF op = "emit" THEN rereg
          ELSE FALSE

TrackCleared(op, name, arg) ==
    cleared' =
        IF op = "disconnect" /\ arg = NoSlot
        THEN [name |-> name, had |-> slots' # slots]
        ELSE IF op \in {"connect", "unregister"} /\ name = cleared.name THEN NoFocus
        ELSE cleared

TrackUnregister(op, name, arg) ==
    LET connecting == op = "connect" /\ name = Focus /\ Focus \in DOMAIN custom
        removed    == Focus \in DOMAIN custom /\ Focus \notin DOMAIN custom'
    IN  /\ called' = IF connecting THEN called \cup {arg}
                      ELSE IF removed THEN {}
                      ELSE called
        /\ orphans' = IF connecting THEN orphans \ {arg}
                       ELSE IF removed THEN orphans \cup called
                       ELSE orphans

TrackShutdown(op, name, arg) ==
    /\ unreg' = (unreg \/ (Focus \in DOMAIN custom /\ Focus \notin DOMAIN custom'))
    /\ inert' = IF op = "shutdown" THEN TRUE
                ELSE IF op \in {"register", "connect"} THEN FALSE
                ELSE inert

\* as TrackShutdown, without the history of "ping"
TrackInert(op, name, arg) ==
    /\ inert' = IF op = "shutdown" THEN TRUE
                ELSE IF op \in {"register", "connect"} THEN FALSE
                ELSE inert
    /\ UNCHANGED unreg

Track(group, op, name, arg) ==
    /\ IF group = "requested" THEN TrackRequested(op, name, arg)
       ELSE UNCHANGED <<requested, rereg>>
    /\ IF group = "cleared" THEN TrackCleared(op, name, arg) ELSE UNCHANGED cleared
    /\ IF group = "unregister" THEN TrackUnregister(op, name, arg)
       ELSE UNCHANGED <<called, orphans>>
    /\ IF group = "shutdown" THEN TrackShutdown(op, name, arg)
       ELSE IF group = "inert" THEN TrackInert(op, name, arg)
       ELSE UNCHANGED <<unreg, inert>>

\* ---------------------------------------------------------------- specification
\* the process once the singletons are constructed and the window is not
Init ==
    /\ custom = <<>>
    /\ slots = [n \in BoundSignals |-> <<>>]
    /\ last = NoCall
    /\ requested = <<>>
    /\ rereg = FALSE
    /\ cleared = NoFocus
    /\ called = {}
    /\ orphans = {}
    /\ unreg = FALSE
    /\ inert = FALSE
    /\ instances = ("SignalManager" :> 1) @@ ("ConfigManager" :> 2)
    /\ config_data = DefaultConfig
    /\ cfg = NoCfg
    /\ phase = "new"
    /\ links = NoLinks
    /\ data_cache = <<>>
    /\ app_service = "None"
    /\ status_label = <<>>
    /\ data_display = Display("", {})
    /\ act = NoAct
    /\ ctl_shut = FALSE
    /\ button = EnhancedButton_init(FALSE)
    /\ tips = NoTips

\* what the bus does not touch
offBus == <<instances, cfgVars, appVars, widgetVars>>

\* the names the bus is called with: strs, and where totality is looked at
\* also a name that is no str
NamesOf(group) ==
    IF group = "total" THEN Names \cup NonStringNames
    ELSE IF group = "slots" THEN CustomNames \cup BoundSignals
    ELSE IF group = "inert" THEN CustomNames \cup InheritedSignals
    ELSE IF group = "close" THEN PredefinedNames \cup InheritedSignals
    ELSE Names

\* the names register_signal is called with
RegisterNamesOf(group) ==
    IF group \in {"slots", "inert"} THEN CustomNames
    ELSE IF group = "close" THEN PredefinedNames
    ELSE RegisterNames \cup (NamesOf(group) \ Names)

\* the slots the bus is called with: functions, and where the slots are
\* looked at a function and a callable without a __name__
ObserversOf(group) ==
    IF group = "slots" THEN {"O1"} \cup NamelessObservers ELSE Observers

Register(group) ==
    \E n \in RegisterNamesOf(group) :
        /\ register_signal(n)
        /\ Track(group, "register", n, "None")
        /\ UNCHANGED offBus

\* the connections of the signal a name stands for, none when the name stands
\* for nothing that can hold one
ConnectionsOf(signal_name) ==
    LET signal == get_signal(signal_name)
    IN  IF signal # None /\ HasSlotApi(signal) THEN slots[BoundName(signal)] ELSE <<>>

\* the slots that may raise when the emission calls them, and how the
\* binding reports it: a choice only where the emission calls a slot, and a
\* slot that raises
RaisingSetsAt(signal_name, data) ==
    IF emit_outcome(custom, slots, signal_name, data, {}, "print").calls = <<>>
    THEN {{}} ELSE RaisingSets

SlotErrorsAt(signal_name, bad) ==
    IF Range(ConnectionsOf(signal_name)) \cap bad = {} THEN {"print"} ELSE SlotErrors

\* how the binding reports a failed disconnect: a choice only where the
\* signal is bound and there is nothing to disconnect
DisconnectFailuresAt(signal_name, slot) ==
    LET signal == get_signal(signal_name)
        bound  == signal # None /\ HasSlotApi(signal)
        conns  == ConnectionsOf(signal_name)
    IN  IF bound /\ (IF slot = NoSlot THEN conns = <<>> ELSE slot \notin Range(conns))
        THEN DisconnectFailures ELSE {"raise"}

Emit(group) ==
    \E n \in NamesOf(group), d \in Payloads :
      \E bad \in RaisingSetsAt(n, d) :
        \E e \in SlotErrorsAt(n, bad) :
        /\ emit_signal(n, d, bad, e)
        /\ Track(group, "emit", n, d)
        /\ UNCHANGED offBus

\* an emission whose first slot calls the bus
EmitReentrant(group) ==
    \E n \in NamesOf(group), d \in Payloads, entry \in Reentries,
       other \in NamesOf(group), o \in ObserversOf(group) \cup {NoSlot} :
        /\ entry # "emit" => other = Focus
        /\ entry # "disconnect" => o = NoSlot
        /\ emit_signal_reentrant(n, d, entry, other, o)
        /\ Track(group, "emit", n, d)
        /\ UNCHANGED offBus

Connect(group) ==
    \E n \in NamesOf(group), o \in ObserversOf(group) :
        /\ group = "requested" /\ n = Focus => Len(requested) < MaxSlots
        /\ connect_signal(n, o)
        /\ Track(group, "connect", n, o)
        /\ UNCHANGED offBus

Disconnect(group) ==
    \E n \in NamesOf(group), o \in ObserversOf(group) \cup {NoSlot} :
      \E f \in DisconnectFailuresAt(n, o) :
        /\ disconnect_signal(n, o, f)
        /\ Track(group, "disconnect", n, o)
        /\ UNCHANGED offBus

Unregister(group) ==
    \E n \in NamesOf(group) :
        /\ unregister_signal(n)
        /\ Track(group, "unregister", n, "None")
        /\ UNCHANGED offBus

Shutdown(group) ==
    /\ shutdown
    /\ Track(group, "shutdown", "None", "None")
    /\ UNCHANGED offBus

\* the history variables, which the queries and the constructor leave alone
history == <<requested, rereg, cleared, called, orphans, unreg, inert>>

\* get_signal(name) called from outside
Get ==
    \E n \in NamesOf("total") :
        /\ last' = IF LookupRaises(n) THEN Raise("get", n, "None")
                    ELSE Call("get", n, "None", TRUE, get_signal(n), <<>>, FALSE)
        /\ UNCHANGED <<custom, slots, history, offBus>>

\* is_signal_registered(name) called from outside
IsRegistered ==
    \E n \in NamesOf("total") :
        /\ last' = IF LookupRaises(n) THEN Raise("is_registered", n, "None")
                    ELSE Call("is_registered", n, "None", is_signal_registered(n), None,
                              <<>>, FALSE)
        /\ UNCHANGED <<custom, slots, history, offBus>>

\* list_signals() called from outside
ListSignals ==
    /\ last' = Call("list_signals", "None", "None", TRUE, None, <<>>, FALSE)
    /\ UNCHANGED <<custom, slots, history, offBus>>

\* SignalManager() or ConfigManager() evaluated again: SingletonMeta.__call__,
\* and the class's __init__ where an instance was made
Construct ==
    \E cls \in SingletonClasses :
        LET r == SingletonMeta_call(instances, cls)
        IN  /\ instances' = r.instances
            /\ custom' = IF r.created /\ cls = "SignalManager" THEN <<>> ELSE custom
            /\ slots' = IF r.created /\ cls = "SignalManager"
                         THEN [n \in BoundSignals |-> <<>>] ELSE slots
            /\ config_data' = IF r.created /\ cls = "ConfigManager" THEN DefaultConfig
                               ELSE config_data
            /\ last' = Call("construct", cls, "None", TRUE, r.instances[cls], <<>>, FALSE)
            /\ UNCHANGED <<history, cfg, appVars, widgetVars>>

\* ConfigManager.set(key_path, value) called from outside the window
ConfigSet ==
    \E p \in KeyPaths, v \in ConfigValues :
        LET r    == config_set(config_data, p, v)
            keys == split(p)
        IN  /\ cfg.sets < MaxSets
            /\ config_data' = r.config
            /\ cfg' = [op |-> "set", path |-> p, value |-> v, ok |-> r.ok,
                        pre |-> prefix_mappings(config_data, keys),
                        grew |-> ~descend(config_data, SubSeq(keys, 1, Len(keys) - 1)).found,
                        sets |-> cfg.sets + 1, same |-> FALSE, got |-> DefaultValue]
            /\ UNCHANGED <<busVars, instances, appVars, widgetVars>>

\* ConfigManager.get(key_path, default), with the path last set or a short one
ConfigGet ==
    \E p \in {cfg.path} \cup {q \in KeyPaths : Len(q) <= 1} :
        /\ cfg' = [cfg EXCEPT !.op = "get",
                              !.same = (cfg.sets > 0 /\ p = cfg.path),
                              !.got = config_get(config_data, p, DefaultValue)]
        /\ UNCHANGED <<config_data, busVars, instances, appVars, widgetVars>>

\* the view, the service and the status after a call into the application
Apply(w) ==
    /\ links' = w.links
    /\ data_cache' = w.cache
    /\ status_label' = w.status
    /\ data_display' = w.display

\* App.__init__, main.py lines 21-61: the bus is there already and its two
\* connect_signal calls fail; _init_ui; _load_configuration ends at once in
\* the AttributeError of get_config_path; _init_services; app_initialized
App_init ==
    LET w   == App_init_ui(World)
        out == emit_outcome(custom, slots, "app_initialized", NoData, {}, "print")
    IN  /\ phase = "new"
        /\ phase' = "running"
        /\ Apply(w)
        /\ app_service' = "live"
        /\ act' = Act("App.__init__", "", PyNone, w,
                      <<"signal_manager.connect_signal", "signal_manager.connect_signal",
                        "MainView", "MainController", "ExampleService",
                        "signal_manager.emit_signal">>)
        /\ last' = Call("emit", "app_initialized", NoData, out.ok, None, out.calls,
                        out.failed)
        /\ UNCHANGED <<custom, slots, history, instances, cfgVars, ctl_shut, widgetVars>>

\* the view emits action_triggered(kind, data): a click on save or clear, or
\* any other emission
ActionTriggered ==
    \E kind \in ActionKinds, data \in ActionData :
        LET w == action_triggered_emit(World, kind, data)
        IN  /\ phase # "new"
            /\ Apply(w)
            /\ act' = Act("handle_action", kind, data, w, <<>>)
            /\ UNCHANGED <<phase, app_service, ctl_shut, busVars, instances, cfgVars,
                           widgetVars>>

\* the view emits data_requested(key): a click on load, or any other emission
DataRequested ==
    \E key \in RequestKeys :
        LET w == data_requested_emit(World, key)
        IN  /\ phase # "new"
            /\ Apply(w)
            /\ act' = Act("handle_data_request", key, PyNone, w, <<>>)
            /\ UNCHANGED <<phase, app_service, ctl_shut, busVars, instances, cfgVars,
                           widgetVars>>

\* MainController.shutdown() called from outside
ControllerShutdown ==
    LET w == MainController_shutdown(World)
    IN  /\ phase # "new"
        /\ Apply(w)
        /\ ctl_shut' = TRUE
        /\ act' = Act("shutdown", "", PyNone, w, <<"example_service.shutdown">>)
        /\ UNCHANGED <<phase, app_service, busVars, instances, cfgVars, widgetVars>>

\* as close_bus, but app_shutdown is emitted first and the bus shut down then
close_bus_emit_first(reg, conns, bad, slotError) ==
    [custom |-> unregister_all(reg),
     slots  |-> disconnect_attributes(conns),
     out    |-> emit_outcome(reg, conns, "app_shutdown", NoData, bad, slotError),
     made   |-> <<"signal_manager.emit_signal", "signal_manager.shutdown">>]

\* main.py lines 183-190: signal_manager.shutdown(), then
\* signal_manager.emit_signal("app_shutdown") on the bus that was shut down
close_bus(reg, conns, bad, slotError) ==
    [custom |-> unregister_all(reg),
     slots  |-> disconnect_attributes(conns),
     out    |-> emit_outcome(unregister_all(reg), disconnect_attributes(conns),
                             "app_shutdown", NoData, bad, slotError),
     made   |-> <<"signal_manager.shutdown", "signal_manager.emit_signal">>]

\* App.closeEvent, main.py lines 161-196: size and position into the
\* configuration, the window's own service shut down, the bus shut down,
\* then app_shutdown emitted
CloseEvent ==
    \E bad \in RaisingSets, e \in SlotErrors :
        LET size == config_set(config_data, <<"application", ".", "window_size">>,
                               Leaf("[width, height]"))
            pos  == config_set(size.config, <<"application", ".", "window_position">>,
                               Leaf("[x, y]"))
            bus  == close_bus(custom, slots, bad, e)
            out  == bus.out
        IN  /\ phase = "running"
            /\ phase' = "closed"
            /\ config_data' = pos.config
            /\ app_service' = IF app_service # "None" THEN "shutdown" ELSE app_service
            /\ custom' = bus.custom
            /\ slots' = bus.slots
            /\ last' = Call("emit", "app_shutdown", NoData, out.ok, None, out.calls,
                            out.failed)
            /\ act' = Act("closeEvent", "", PyNone, World,
                          <<"config_manager.set", "config_manager.set",
                            "config_manager.save_config">>
                          \o (IF app_service # "None" THEN <<"example_service.shutdown">>
                              ELSE <<>>)
                          \o bus.made)
            /\ UNCHANGED widgetVars
            /\ UNCHANGED <<history, instances, cfg, links, data_cache, status_label,
                           data_display, ctl_shut>>

Next(group) ==
    \/ Register(group)
    \/ Emit(group)
    \/ Connect(group)
    \/ Disconnect(group)
    \/ Unregister(group)
    \/ Shutdown(group)

\* the bus with its queries and the constructor, called with any name
NextTotal == Next("total") \/ Get \/ IsRegistered \/ ListSignals \/ Construct

\* the configuration manager
NextConfig == ConfigSet \/ ConfigGet

\* the window with its view, its controller and the controller's service
NextApp == App_init \/ ActionTriggered \/ DataRequested \/ ControllerShutdown \/ CloseEvent

\* the bus alone
Spec == Init /\ [][Next("none")]_vars

\* the bus with two bound signals, a slot without a __name__ and slots that
\* call the bus
NextSlots == Next("slots") \/ EmitReentrant("slots")

SpecSlots == Init /\ [][NextSlots]_vars

\* the window from its construction to its closing, with slots being
\* connected through the bus meanwhile
NextClose ==
    App_init \/ Register("close") \/ Connect("close") \/ Emit("close") \/ CloseEvent

SpecClose == Init /\ [][NextClose]_vars

\* the bus and its constructor, with the history of shutdown()
NextInert == Next("inert") \/ ListSignals \/ Construct

SpecInert == Init /\ [][NextInert]_vars

\* the bus, every public method, names of any type
SpecTotal == Init /\ [][NextTotal]_vars

\* the configuration manager on any of the documents it may have loaded
InitConfig ==
    \E c \in InitialConfigs :
        /\ config_data = c
        /\ custom = <<>>
        /\ slots = [n \in BoundSignals |-> <<>>]
        /\ last = NoCall
        /\ requested = <<>>
        /\ rereg = FALSE
        /\ cleared = NoFocus
        /\ called = {}
        /\ orphans = {}
        /\ unreg = FALSE
        /\ inert = FALSE
        /\ instances = ("SignalManager" :> 1) @@ ("ConfigManager" :> 2)
        /\ cfg = NoCfg
        /\ phase = "new"
        /\ links = NoLinks
        /\ data_cache = <<>>
        /\ app_service = "None"
        /\ status_label = <<>>
        /\ data_display = Display("", {})
        /\ act = NoAct
        /\ ctl_shut = FALSE
        /\ button = EnhancedButton_init(FALSE)
        /\ tips = NoTips

SpecConfig == InitConfig /\ [][NextConfig]_vars

\* the window
SpecApp == Init /\ [][NextApp]_vars

\* the bus, with the connect_signal calls made on a custom signal recorded
SpecRequested == Init /\ [][Next("requested")]_vars

\* the bus, with the last disconnect_signal(name) call recorded
SpecCleared == Init /\ [][Next("cleared")]_vars

\* the bus, with the slots of an unregistered custom signal recorded
SpecUnregister == Init /\ [][Next("unregister")]_vars

\* the bus, with unregistration and shutdown recorded
SpecShutdown == Init /\ [][Next("shutdown")]_vars

\* ---------------------------------------------------------------- claims
\* ---------------------------------------------------------------- the widgets
\* what the widgets do not touch
offWidgets == <<busVars, instances, cfgVars, appVars>>

\* another EnhancedButton is made, and is the one looked at from now on
NewButton ==
    \E auto_disable \in BOOLEAN :
        /\ button' = EnhancedButton_init(auto_disable)
        /\ UNCHANGED <<tips, offWidgets>>

\* the user clicks the button: Qt emits clicked on an enabled button only
Click ==
    /\ button.enabled
    /\ button.auto_disable => button.timers < MaxTimers
    /\ button' = on_clicked(button)
    /\ UNCHANGED <<tips, offWidgets>>

SetUserData ==
    \E data \in UserData :
        /\ button' = set_user_data(button, data)
        /\ UNCHANGED <<tips, offWidgets>>

SetLoading ==
    \E loading \in BOOLEAN :
        /\ button' = set_loading(button, loading)
        /\ UNCHANGED <<tips, offWidgets>>

\* a single-shot timer of the button fires
TimerFired ==
    /\ button.timers > 0
    /\ button' = timer_fired(button)
    /\ UNCHANGED <<tips, offWidgets>>

\* QMessageTip() alone
NewTip ==
    /\ Len(tips.made) < MaxTips
    /\ tips' = QMessageTip_init(tips)
    /\ UNCHANGED <<button, offWidgets>>

\* QMessageTip.information(...) and the other three static methods
ShowTip ==
    /\ Len(tips.made) < MaxTips
    /\ tips' = QMessageTip_show(tips)
    /\ UNCHANGED <<button, offWidgets>>

\* close_after_timer on a tip that is open
CloseAfterTimer ==
    \E tip \in 1..Len(tips.made) :
        /\ tips.made[tip].open
        /\ tips' = close_after_timer(tips, tip)
        /\ UNCHANGED <<button, offWidgets>>

\* close() on a tip: its timer fires, or the program calls it
CloseTip ==
    \E tip \in 1..Len(tips.made) :
        /\ tips' = QMessageTip_close(tips, tip)
        /\ UNCHANGED <<button, offWidgets>>

NextButton == NewButton \/ Click \/ SetUserData \/ SetLoading \/ TimerFired

SpecButton == Init /\ [][NextButton]_vars

NextTips == NewTip \/ ShowTip \/ CloseAfterTimer \/ CloseTip

SpecTips == Init /\ [][NextTips]_vars

Focused == last.name = Focus /\ Focus \in DOMAIN custom

\* C1: register_signal(p) on a predefined name p returns the predefined signal
\* object of p and adds no entry for p to the custom registry.
C1_RegisterPredefined ==
    last.op = "register" /\ last.name \in PredefinedNames =>
        /\ last.obj = attrs[last.name]
        /\ last.name \notin list_signals.custom_signals

\* C2: a second register_signal(n) on a custom name returns the object the
\* name is registered with, and a slot connected once between the two calls
\* is called exactly once, with the payload, by a later emit_signal(n, data).
C2_RegisterTwice ==
    /\ last.op = "register" /\ rereg /\ Focused => last.obj = custom[Focus]
    /\ last.op = "emit" /\ rereg /\ Focused /\ last.arg # NoData =>
         \A o \in Range(requested) :
            Cardinality({i \in 1..Len(requested) : requested[i] = o}) = 1 =>
            Cardinality({i \in 1..Len(last.invoked) :
                             last.invoked[i] = <<o, last.arg>>}) = 1

\* C3: emit_signal, connect_signal, disconnect_signal and unregister_signal on
\* a name that is neither a custom nor a predefined signal return False, call
\* no slot and change neither the registry nor any connection.
C3_UnknownName ==
    [][(/\ last'.op \in {"emit", "connect", "disconnect", "unregister"}
        /\ ~is_signal_registered(last'.name))
       => /\ ~last'.ok
          /\ last'.invoked = <<>>
          /\ custom' = custom
          /\ slots' = slots]_vars

C3_Witness ==
    /\ last.op = "emit"
    /\ last.arg # NoData
    /\ ~is_signal_registered(last.name)
    /\ ~last.ok
    /\ custom # <<>>
    /\ \E n \in InheritedSignals : slots[n] # <<>>

\* C4: with O1 then O2 connected to a signal, emit_signal(S, data) calls O1
\* then O2 with data, and returns False when one of them raised.
C4_EmitOrder ==
    last.op = "emit" /\ Focused /\ requested = <<"O1", "O2">> /\ last.arg # NoData =>
        /\ last.invoked = << <<"O1", last.arg>>, <<"O2", last.arg>> >>
        /\ last.raised => ~last.ok

\* C5: after disconnect_signal(S) without a slot, an emit_signal(S) calls no
\* slot, as long as nothing was connected to S and S was not unregistered in
\* between.
C5_DisconnectAll ==
    last.op = "emit" /\ last.name = cleared.name => last.invoked = <<>>

C5_Witness ==
    /\ last.op = "emit"
    /\ last.name = cleared.name
    /\ cleared.had
    /\ last.arg # NoData
    /\ last.ok

\* C6: unregister_signal(S) on a custom signal returns True and takes S off
\* list_signals()'s custom names, and no later emit_signal(S) calls a slot
\* that connect_signal had been called with for S before, also once S is
\* registered again.
C6_Unregister ==
    [][/\ (last'.op = "unregister" /\ last'.name \in DOMAIN custom) =>
            /\ last'.ok
            /\ last'.name \notin list_signals'.custom_signals
       /\ (last'.op = "emit" /\ last'.name = Focus) =>
            \A i \in 1..Len(last'.invoked) : last'.invoked[i][1] \notin orphans]_vars

C6_Witness ==
    /\ last.op = "emit"
    /\ last.arg # NoData
    /\ Focused
    /\ orphans # {}

\* C7: unregister_signal on a predefined name returns False, removes nothing
\* and leaves the name among list_signals()'s predefined names.
C7_UnregisterPredefined ==
    [][(last'.op = "unregister" /\ last'.name \in PredefinedNames) =>
           /\ ~last'.ok
           /\ custom' = custom
           /\ last'.name \in list_signals'.predefined_signals]_vars

\* C8: after shutdown(), emit_signal on a name that was a custom or a
\* predefined signal returns False and calls no slot.
C8_EmitAfterShutdown ==
    (/\ inert
     /\ last.op = "emit"
     /\ last.name \in list_signals.predefined_signals \cup (IF unreg THEN {Focus} ELSE {}))
    => ~last.ok /\ last.invoked = <<>>

\* C9: a shutdown() directly after a shutdown() returns normally and leaves
\* the registry and every connection as the first call left them.
C9_ShutdownTwice ==
    [][(last.op = "shutdown" /\ last'.op = "shutdown") =>
           /\ last'.ok
           /\ custom' = custom
           /\ slots' = slots]_vars

C9_Witness == last.op = "shutdown" /\ last.again

\* C10: with one slot connected to a newly registered custom signal,
\* emit_signal(name, x) calls that slot exactly once with x and returns True.
C10_EmitCustom ==
    last.op = "emit" /\ Focused /\ Len(requested) = 1 /\ last.arg # NoData =>
        /\ last.ok
        /\ last.invoked = << <<requested[1], last.arg>> >>

\* C11: no public method of the bus (register, get, emit, connect, disconnect,
\* list_signals, is_registered, unregister, shutdown) ends in an exception
\* that reaches the caller, whatever it is called with.
C11_Total == ~last.escaped

\* C12: constructing the bus (or the configuration manager) again returns the
\* instance that exists and leaves the custom registry, every connection and
\* the configuration as they were.
C12_FirstConstructionWins ==
    [][last'.op = "construct" =>
           /\ last'.obj = instances[last'.name]
           /\ instances' = instances
           /\ custom' = custom
           /\ slots' = slots
           /\ config_data' = config_data]_vars

C12_Witness ==
    /\ last.op = "construct"
    /\ last.name = "SignalManager"
    /\ custom # <<>>
    /\ \E n \in InheritedSignals : Len(slots[n]) = MaxSlots

\* C13: after handle_action("save_data", {key: k, value: v}) the service's
\* cache maps k to v, and the view's update_status was called with a text
\* that holds k, which the status label now shows.
C13_SaveData ==
    (act.op = "handle_action" /\ act.kind = "save_data" /\ save_payload(act.data)) =>
        LET k == act.data.items["key"]
        IN  /\ k \in DOMAIN data_cache
            /\ data_cache[k] = act.data.items["value"]
            /\ \E i \in 1..Len(act.calls) :
                   act.calls[i].slot = "update_status" /\ k \in Range(act.calls[i].text)
            /\ k \in Range(status_label)

C13_Witness ==
    /\ act.op = "handle_action"
    /\ act.kind = "save_data"
    /\ save_payload(act.data)
    /\ act.data.items["key"] \in DOMAIN act.before
    /\ act.before[act.data.items["key"]] # act.data.items["value"]
    /\ ctl_shut = FALSE

\* C14: handle_data_request("all") on an empty cache calls the view's
\* update_data with an empty mapping, and the view's data display then shows
\* the text "no data".
C14_EmptyAll ==
    (act.op = "handle_data_request" /\ act.kind = "all" /\ act.before = <<>>) =>
        /\ \E i \in 1..Len(act.calls) :
               act.calls[i].slot = "update_data" /\ act.calls[i].data = PyDict(<<>>)
        /\ data_display.text = "no data"

\* C15: handle_action with a kind outside {initialize, save_data, clear_data}
\* leaves the service's cache as it was and calls the view's update_status
\* with a text that holds the kind, which the status label now shows.
C15_UnknownAction ==
    (act.op = "handle_action" /\ act.kind \notin KnownActions) =>
        /\ data_cache = act.before
        /\ \E i \in 1..Len(act.calls) :
               /\ act.calls[i].slot = "update_status"
               /\ act.kind \in Range(act.calls[i].text)
        /\ act.kind \in Range(status_label)

C15_Witness ==
    /\ act.op = "handle_action"
    /\ act.kind \notin KnownActions
    /\ data_cache # <<>>
    /\ save_payload(act.data)

\* C16: once MainController.shutdown() has been called, no handle_action and
\* no handle_data_request changes the service's cache or calls the view's
\* update_data.
C16_NoReturn ==
    [][(ctl_shut /\ act'.op \in {"handle_action", "handle_data_request"}) =>
           /\ data_cache' = data_cache
           /\ \A i \in 1..Len(act'.calls) : act'.calls[i].slot # "update_data"]_vars

\* C17: set(path, v) on a configuration where every level the path passes
\* through is a mapping as far as it exists returns True, leaves every level
\* of the path a mapping, and get(path, default) then returns v, in the same
\* step and in a get that follows.
C17_SetThenGet ==
    [][/\ (cfg'.op = "set" /\ prefix_mappings(config_data, split(cfg'.path))) =>
            /\ cfg'.ok
            /\ config_get(config_data', cfg'.path, DefaultValue) = cfg'.value
            /\ \A n \in 1..(Len(split(cfg'.path)) - 1) :
                   LET level == descend(config_data', SubSeq(split(cfg'.path), 1, n))
                   IN  level.found /\ level.value.kind = "dict"
       /\ (cfg'.op = "get" /\ cfg'.same /\ cfg'.pre) => cfg'.got = cfg'.value]_vars

C17_Witness ==
    /\ cfg.op = "get"
    /\ cfg.same
    /\ cfg.pre
    /\ cfg.grew
    /\ Len(split(cfg.path)) = 3
    /\ cfg.got = cfg.value

\* C18: once App.__init__ has built the view and its controller, the service's
\* cache holds app_name, version and author and the view's update_data has
\* been called with them.
C18_Initialized ==
    act.op = "App.__init__" =>
        /\ \A k \in DOMAIN InitialData :
               k \in DOMAIN data_cache /\ data_cache[k] = InitialData[k]
        /\ \E i \in 1..Len(act.calls) :
               act.calls[i].slot = "update_data" /\ act.calls[i].data = PyDict(InitialData)

\* C19: closeEvent calls the controller's shutdown() exactly once and leaves
\* the cache of the controller's service empty.
C19_CloseOnce ==
    act.op = "closeEvent" =>
        /\ Cardinality({i \in 1..Len(act.made) : act.made[i] = "main_controller.shutdown"}) = 1
        /\ data_cache = <<>>

\* C20: when no slot raises, emit_signal(name, data) on a registered custom
\* signal returns True and calls every slot connect_signal was called with
\* for it: with data when data is given, with no argument when it is not.
C20_EmitPayload ==
    (last.op = "emit" /\ Focused /\ ~last.raised) =>
        /\ last.ok
        /\ last.invoked = [i \in 1..Len(requested) |-> <<requested[i], last.arg>>]

\* C21: disconnect_signal(name, slot) with a slot given takes connections of
\* that slot to that signal only: the connections of every other slot to the
\* signal stay, in their order, the connections to every other signal stay,
\* and so does the registry
C21_DisconnectFrame ==
    [][last'.op = "disconnect" /\ last'.arg # NoSlot /\ ~last'.escaped
       => /\ custom' = custom
          /\ \A n \in BoundSignals :
                 SelectSeq(slots'[n], LAMBDA c : c # last'.arg)
                     = SelectSeq(slots[n], LAMBDA c : c # last'.arg)
          /\ \A n \in BoundSignals :
                 slots'[n] # slots[n]
                     => /\ get_signal(last'.name) = attrs[n]
                        /\ last'.arg \in Range(slots[n])]_vars

\* a slot was disconnected from one signal while another slot was connected
\* to that signal and the slot itself to another signal
C21_Witness ==
    /\ last.op = "disconnect" /\ last.name = "objectNameChanged" /\ last.arg = "O1"
    /\ slots["objectNameChanged"] = <<"partial">>
    /\ "O1" \in Range(slots["destroyed"])

\* C22: disconnect_signal(name, slot) for a slot that is not connected to the
\* signal returns False and leaves the connections as they are
C22_NotSubscribed ==
    [][/\ last'.op = "disconnect" /\ last'.arg # NoSlot /\ ~last'.escaped
       /\ last'.arg \notin Range(ConnectionsOf(last'.name))
       => ~last'.ok /\ slots' = slots]_vars

\* C23: shutdown() leaves the one bus instance with an empty custom registry
\* and no connection, and as long as nothing is registered or connected
\* list_signals() shows no custom signal and SignalManager() returns that
\* same instance, with the registry still empty and still no connection
C23_ShutdownInert ==
    /\ [][last'.op = "shutdown"
             => /\ instances' = instances
                /\ custom' = <<>>
                /\ \A n \in BoundSignals : slots'[n] = <<>>]_vars
    /\ [](inert => list_signals.custom_signals = {}
                    /\ \A n \in BoundSignals : slots[n] = <<>>)
    /\ [][inert /\ last'.op = "construct"
             => /\ inert'
                /\ last'.obj = instances[last'.name]
                /\ instances' = instances]_vars

\* the bus was constructed again after a shutdown() with nothing registered
\* or connected since
C23_Witness ==
    /\ inert
    /\ last.op = "construct" /\ last.name = "SignalManager"
    /\ last.obj = instances["SignalManager"]

\* C24: an emission that has called a slot calls every slot that was
\* connected to the signal when it began
C24_NoCancellation ==
    [][last'.op = "emit" /\ ~last'.escaped /\ last'.invoked # <<>>
       => \A o \in Range(ConnectionsOf(last'.name)) :
              \E i \in 1..Len(last'.invoked) : last'.invoked[i][1] = o]_vars

\* C25: get_signal(name) returns something other than None exactly when
\* is_signal_registered(name) is True
C25_GetIffRegistered ==
    last.op = "get" /\ ~last.escaped
        => (last.obj # None <=> is_signal_registered(last.name))

\* C26: connect_signal returns True exactly when the slot is connected by it:
\* when it returns False the connections are as before
C26_ConnectResult ==
    [][last'.op = "connect" /\ ~last'.escaped
       => (last'.ok <=> slots' # slots)]_vars

\* C27: every handle_action makes at least one update_status call on the
\* view; a save_data whose payload is None, no dict, or a dict without 'key'
\* or 'value' leaves the service's cache as it was and is reported like this
\* as well
C27_ActionReported ==
    act.op = "handle_action"
        => /\ \E i \in 1..Len(act.calls) : act.calls[i].slot = "update_status"
           /\ (act.kind = "save_data" /\ ~save_payload(act.data))
                  => data_cache = act.before

\* C28: closeEvent calls signal_manager.shutdown() before
\* signal_manager.emit_signal("app_shutdown"), so the emission finds an empty
\* registry and no connection and calls no slot
C28_ShutdownBeforeEmit ==
    [][act'.op = "closeEvent" /\ phase = "running" /\ phase' = "closed"
       => /\ \E i \in 1..Len(act'.made) :
                 /\ act'.made[i] = "signal_manager.shutdown"
                 /\ \A j \in 1..i : act'.made[j] # "signal_manager.emit_signal"
                 /\ \E j \in (i + 1)..Len(act'.made) :
                        act'.made[j] = "signal_manager.emit_signal"
          /\ last'.op = "emit" /\ last'.name = "app_shutdown"
          /\ last'.invoked = <<>>
          /\ custom' = <<>>
          /\ \A n \in BoundSignals : slots'[n] = <<>>]_vars

\* the window was closed: its service is shut down, and the emission of
\* app_shutdown that followed the bus's shutdown returned False
C28_Witness ==
    /\ act.op = "closeEvent" /\ phase = "closed"
    /\ last.op = "emit" /\ last.name = "app_shutdown" /\ ~last.ok
    /\ app_service = "shutdown"

\* C29: an EnhancedButton whose is_loading() is True is disabled
C29_LoadingDisabled == is_loading(button) => ~button.enabled

\* C30: RECORDER holds exactly the tips that were made and are not closed,
\* and close() does not fail on a missing entry
C30_RecorderExact ==
    /\ {tips.recorder[k] : k \in DOMAIN tips.recorder}
           = {tip \in 1..Len(tips.made) : tips.made[tip].open}
    /\ tips.last.raised # "KeyError"

====
